---- MODULE Spec2Model ----
(***************************************************************************)
(* pythonBridgeClient.py: a websocket client of the vscode-python-bridge   *)
(* plugin (VsCodeBridgeClient) and the proxies built on it (Remote,        *)
(* RemoteObject, RemoteValue, RemoteFunction, CommandCaller).              *)
(*                                                                         *)
(* One client object is modelled.  Every method is one action, translated  *)
(* statement by statement; a method that calls another one uses the        *)
(* operator of the callee, so that an exception raised deep in a call      *)
(* chain ends the caller at the same statement as in the source.           *)
(*                                                                         *)
(* Python text is a sequence of one-character strings, so that quoting     *)
(* and escaping are computed character by character.                       *)
(***************************************************************************)
EXTENDS Integers, Sequences, FiniteSets, TLC

VARIABLES
    client,     \* the attributes of the VsCodeBridgeClient object
    conns,      \* every connection websocket.create_connection has made
    nreq,       \* number of requests sent so far (request ids)
    nodes,      \* the Remote proxies the caller holds
    last        \* what the last method call did (history, read by properties)

vars == <<client, conns, nreq, nodes, last>>

----------------------------------------------------------------------------
(* Bounds of the model *)

MaxConns == 2   \* connections created in one run
MaxReqs == 2    \* requests sent in one run
MaxNodes == 4   \* proxies held at once
MaxWalkReqs == 8    \* requests sent by the end of a treeWalk

----------------------------------------------------------------------------
(* Python values *)

\* An attribute that no statement has assigned yet: reading it raises
\* AttributeError.  None is Python's None.  Connection handles are 1, 2, ...
Unset == -1
None == 0
UnsetStr == "<unset>"
NoneStr == "<None>"

PyStr(chars) == [type |-> "str", text |-> chars]
PyInt(chars) == [type |-> "int", text |-> chars]
PyFloat(chars) == [type |-> "float", text |-> chars]

\* str(v): the default textual form (for a str, the string itself)
str(v) == v.text

RECURSIVE replace(_, _, _)
\* s.replace(old, new) for a one-character old
replace(s, old, new) ==
    IF s = <<>> THEN <<>>
    ELSE (IF Head(s) = old THEN new ELSE <<Head(s)>>) \o replace(Tail(s), old, new)

RECURSIVE join(_, _)
\* sep.join(parts)
join(sep, parts) ==
    IF parts = <<>> THEN <<>>
    ELSE IF Len(parts) = 1 THEN parts[1]
    ELSE parts[1] \o sep \o join(sep, Tail(parts))

----------------------------------------------------------------------------
(* The session registry, ~/.vscode_instances.json, as getInstances reads it *)

Instances ==
    << [name |-> "proj", host |-> "h1", port |-> 9000, pid |-> 11] >>

RECURSIVE lookup(_, _)
lookup(instances, instanceName) ==
    IF instances = <<>> THEN <<>>
    ELSE IF Head(instances).name = instanceName THEN <<Head(instances)>>
    ELSE lookup(Tail(instances), instanceName)

\* The matching registry entry, as a sequence of zero (None) or one element
getInstanceInfo(instanceName) == lookup(Instances, instanceName)

findInstance(instanceName) == lookup(Instances, instanceName)

----------------------------------------------------------------------------
(* Calls: a world is what a call can change, an outcome is a world plus    *)
(* the exception raised ("" for a normal return) and the value returned.   *)

World == [c |-> client, conns |-> conns, n |-> nreq,
          tx |-> <<>>,      \* requests this call has sent
          rx |-> <<>>,      \* replies this call has consumed
          out |-> <<>>,     \* payloads this call has printed
          opens |-> <<>>]   \* the openSocket calls made, each with its outcome

Return(w, v) == [w |-> w, exc |-> "", val |-> v]
Raise(w, e) == [w |-> w, exc |-> e, val |-> None]

\* Statement sequencing: the outcome r of a call is computed once, and the
\* statements after it, F(r), run.  With Try an exception of the call ends
\* the caller there, with that exception.
Then(r0, F(_)) == CHOOSE v \in { F(r) : r \in {r0} } : TRUE
Try(r0, F(_)) ==
    CHOOSE v \in { IF r.exc # "" THEN r ELSE F(r) : r \in {r0} } : TRUE

----------------------------------------------------------------------------
(* The bridge at the other end of a connection.  It is not part of this    *)
(* repository: it is the environment, and answers every request it is sent *)
(* with one reply.  What it answers is chosen per call from Servers.       *)

\* A member descriptor of an inspect reply.  name and params are optional
\* keys of the JSON object: a sequence of zero or one value.
Descr(key, name, type, params) ==
    [key |-> key, name |-> name, type |-> type, params |-> params]

\* the name of the root proxy the caller builds
RootName == <<"r", "o", "o", "t">>

\* members mappings by path, in the order of the JSON object
GraphNamed ==
    << [path |-> RootName,
        members |-> << Descr(<<"a">>, <<<<"a">>>>, "object", <<>>),
                       Descr(<<"f", "n">>, <<<<"f", "n">>>>, "function",
                             << <<"x">> >>),
                       Descr(<<"v">>, <<<<"v">>>>, "number", <<>>) >>],
       [path |-> RootName \o <<".", "a">>,
        members |-> << Descr(<<"w">>, <<<<"w">>>>, "string", <<>>) >>] >>

\* the reply of spec.md, section 8: descriptors that carry no name
GraphBare ==
    << [path |-> RootName,
        members |-> << Descr(<<"a">>, <<>>, "object", <<>>),
                       Descr(<<"b">>, <<>>, "function", << <<"x">> >>) >>] >>

\* a name that differs from its key, and a function without params
GraphOdd ==
    << [path |-> RootName,
        members |-> << Descr(<<"k">>, <<<<"n">>>>, "object", <<>>),
                       Descr(<<"f">>, <<<<"f">>>>, "function", <<>>) >>] >>

\* three levels below the root, on two branches
GraphDeep ==
    << [path |-> RootName,
        members |-> << Descr(<<"a">>, <<<<"a">>>>, "object", <<>>),
                       Descr(<<"b">>, <<<<"b">>>>, "object", <<>>) >>],
       [path |-> RootName \o <<".", "a">>,
        members |-> << Descr(<<"c">>, <<<<"c">>>>, "object", <<>>) >>],
       [path |-> RootName \o <<".", "a", ".", "c">>,
        members |-> << Descr(<<"d">>, <<<<"d">>>>, "number", <<>>) >>],
       [path |-> RootName \o <<".", "b">>,
        members |-> << Descr(<<"e">>, <<<<"e">>>>, "number", <<>>) >>] >>

\* a bridge that answers from one of the graphs, one whose payload is not
\* JSON, and one that reports failure on a reply that still carries members
Servers ==
    { [graph |-> g, fault |-> "none"] : g \in {GraphNamed, GraphBare, GraphOdd} }
    \cup { [graph |-> GraphNamed, fault |-> f] : f \in {"garbage", "status"} }

\* the bridges a traversal is run against
WalkServers == Servers \cup { [graph |-> GraphDeep, fault |-> "none"] }

\* the bridges as a request that names no path sees them
Bridges == { srv \in Servers : srv.graph = GraphNamed /\ srv.fault # "status" }

RECURSIVE membersAt(_, _)
\* zero or one members mapping: the one of path in graph
membersAt(graph, path) ==
    IF graph = <<>> THEN <<>>
    ELSE IF Head(graph).path = path THEN <<Head(graph).members>>
    ELSE membersAt(Tail(graph), path)

Reply(id, parses, kind, status, members) ==
    [of |-> id, parses |-> parses, kind |-> kind,
     status |-> status, members |-> members]

\* The reply of server srv to request req.
\*   fault "garbage": a payload that is not JSON
\*   fault "status":  a non-OK status on a reply that still carries members
Serve(srv, req) ==
    IF srv.fault = "garbage" THEN Reply(req.id, FALSE, "value", "", <<>>)
    ELSE IF req.command \in {"inspect", "queryApi"} THEN
        LET path == IF req.args = <<>> \/ req.command = "queryApi"
                    THEN srv.graph[1].path ELSE req.args[1].text
            found == membersAt(srv.graph, path)
        IN  IF found = <<>> THEN Reply(req.id, TRUE, "obj", "ERR", <<>>)
            ELSE IF srv.fault = "status"
                 THEN Reply(req.id, TRUE, "obj", "ERR", found[1])
            ELSE Reply(req.id, TRUE, "obj", "OK", found[1])
    ELSE IF req.command = "getCommands" THEN
        Reply(req.id, TRUE, "list", "",
              << Descr(<<"c", "1">>, <<>>, "", <<>>),
                 Descr(<<"c", "2">>, <<>>, "", <<>>) >>)
    ELSE Reply(req.id, TRUE, "value", "", <<>>)

----------------------------------------------------------------------------
(* VsCodeBridgeClient: the connection *)

\* what one openSocket call did: the handle held before, and the outcome
OpenRec(force, held, exc, sock, created) ==
    [force |-> force, held |-> held, exc |-> exc, sock |-> sock,
     created |-> created]   \* created: how many connections the call made

closeSocket(w) ==
    IF w.c._websocket = Unset THEN Raise(w, "AttributeError")
    ELSE IF w.c._websocket # None THEN
        Return([w EXCEPT !.conns[w.c._websocket].open = FALSE,
                         !.c._websocket = None], None)
    ELSE Return(w, None)

\* websocket.create_connection(f"ws://{self._host}:{self._port}"): the bridge
\* is taken to accept every connection
create_connection(w) ==
    IF w.c._host = UnsetStr \/ w.c._port = Unset THEN Raise(w, "AttributeError")
    ELSE Return([w EXCEPT !.conns = Append(@,
                    [target |-> <<w.c._host, w.c._port>>, open |-> TRUE,
                     inbox |-> <<>>])],
                Len(w.conns) + 1)

openSocketBody(w, force) ==
    Try(IF force THEN closeSocket(w) ELSE Return(w, None), LAMBDA r1 :
        IF r1.w.c._websocket = Unset THEN Raise(r1.w, "AttributeError")
        ELSE IF r1.w.c._websocket = None THEN
            Try(create_connection(r1.w), LAMBDA r2 :
                Return([r2.w EXCEPT !.c._websocket = r2.val], r2.val))
        ELSE Return(r1.w, r1.w.c._websocket))

\* openSocket, with its call recorded in the world
openSocket(w, force) ==
    Then(openSocketBody(w, force), LAMBDA r :
        [r EXCEPT !.w.opens = Append(@,
            OpenRec(force, w.c._websocket, r.exc, r.val,
                    Len(r.w.conns) - Len(w.conns)))])

\* the websocket property
websocket(w) == openSocket(w, FALSE)

----------------------------------------------------------------------------
(* VsCodeBridgeClient: requests *)

Request(id, command, args, kwargs) ==
    [id |-> id, command |-> command, args |-> args, kwargs |-> kwargs]

\* self.websocket.send(payload): the frame goes out on connection sock, and
\* the bridge's reply to it is queued on the same connection
send(w, sock, command, args, kwargs, srv) ==
    LET req == Request(w.n + 1, command, args, kwargs)
    IN  [w EXCEPT !.n = w.n + 1,
                  !.tx = Append(@, [sock |-> sock, req |-> req]),
                  !.conns[sock].inbox = Append(@, Serve(srv, req))]

\* self.websocket.recv(): the oldest unread frame of the connection
recv(w, sock) ==
    Return([w EXCEPT !.conns[sock].inbox = Tail(@),
                     !.rx = Append(@, Head(w.conns[sock].inbox))],
           Head(w.conns[sock].inbox))

executeApi(w, functionName, args, kwargs, srv) ==
    Try(websocket(w), LAMBDA r1 :
    Try(websocket(send(r1.w, r1.val, functionName, args, kwargs, srv)),
        LAMBDA r2 :
    Try(recv(r2.w, r2.val), LAMBDA jsonStr :
        IF ~jsonStr.val.parses
        THEN Raise([jsonStr.w EXCEPT !.out = Append(@, jsonStr.val)],
                   "JSONDecodeError")
        ELSE Return(jsonStr.w, jsonStr.val))))

\* argsList=[commandName]+args is built, and args is sent.  send() returns
\* the number of bytes written, and json.loads of a number raises TypeError;
\* nothing is received.
executeCommand(w, commandName, args, kwargs, srv) ==
    Try(websocket(w), LAMBDA r1 :
        Raise(send(r1.w, r1.val, "executeCommand", args, kwargs, srv),
              "TypeError"))

eval(w, jsString, srv) ==
    executeApi(w, "eval", <<PyStr(jsString)>>, <<>>, srv)

\* the request of inspect; valueName: a sequence of zero (None) or one path
inspectCall(w, valueName, srv) ==
    IF valueName # <<>> /\ valueName[1] # <<>>
    THEN executeApi(w, "inspect", <<PyStr(valueName[1])>>, <<>>, srv)
    ELSE executeApi(w, "inspect", <<>>, <<>>, srv)

\* inspect without the test of the status
inspectAnyStatus(w, valueName, srv) ==
    Try(inspectCall(w, valueName, srv), LAMBDA ret :
        IF ret.val.kind # "obj" THEN Raise(ret.w, "TypeError")
        ELSE Return(ret.w, ret.val.members))

inspect(w, valueName, srv) ==
    Try(inspectCall(w, valueName, srv), LAMBDA ret :
        IF ret.val.kind # "obj" THEN Raise(ret.w, "TypeError")
        ELSE IF ret.val.status = "OK" THEN Return(ret.w, ret.val.members)
        ELSE [w |-> ret.w, exc |-> "Exception", val |-> ret.val])

RECURSIVE keys(_)
keys(members) ==
    IF members = <<>> THEN <<>> ELSE <<Head(members).key>> \o keys(Tail(members))

queryApi(w, force, srv) ==
    IF w.c._apiFunctions = <<>> \/ force THEN
        Try(executeApi([w EXCEPT !.c._apiFunctions = <<>>], "queryApi",
                       <<PyStr(<<"v", "s", "c", "o", "d", "e">>)>>, <<>>, srv),
            LAMBDA result :
            IF result.val.kind # "obj" THEN Raise(result.w, "TypeError")
            ELSE Return([result.w EXCEPT
                            !.c._apiFunctions = keys(result.val.members)],
                        keys(result.val.members)))
    ELSE Return(w, w.c._apiFunctions)

\* the names a loop over the reply yields: the items of a list, the keys of
\* an object
commandNames(ret) ==
    IF ret.kind = "list" THEN keys(ret.members)
    ELSE << <<"status">>, <<"members">> >>

\* getCommands with the test of the cache inverted: a list that is cached is
\* fetched again
getCommandsRefetching(w, force, srv) ==
    IF force \/ w.c._commands # <<>> THEN
        Try(executeApi([w EXCEPT !.c._commands = <<>>], "getCommands",
                       <<>>, <<>>, srv),
            LAMBDA ret :
            IF ret.val.kind = "value" THEN Raise(ret.w, "TypeError")
            ELSE Return([ret.w EXCEPT !.c._commands = commandNames(ret.val)],
                        commandNames(ret.val)))
    ELSE Return(w, w.c._commands)

getCommands(w, force, srv) ==
    IF force \/ w.c._commands = <<>> THEN
        Try(executeApi([w EXCEPT !.c._commands = <<>>], "getCommands",
                       <<>>, <<>>, srv),
            LAMBDA ret :
            IF ret.val.kind = "value" THEN Raise(ret.w, "TypeError")
            ELSE Return([ret.w EXCEPT !.c._commands = commandNames(ret.val)],
                        commandNames(ret.val)))
    ELSE Return(w, w.c._commands)

commands(w, srv) == getCommands(w, FALSE, srv)

----------------------------------------------------------------------------
(* VsCodeBridgeClient: construction and the host, port, instanceName setters *)

\* instanceName: NoneStr or a name; host: NoneStr or a host; port: None or a
\* port.  launched: whether the editor process createNewInstance starts
\* registers itself in time (createNewInstance raises Exception otherwise).
__init__(w, instanceName, createNewInstance, createInstanceIfMissing, host, port, launched, srv) ==
    LET named == instanceName # NoneStr
        looked == named /\ ~createNewInstance
        info == IF looked THEN getInstanceInfo(instanceName) ELSE <<>>
        w1 == [w EXCEPT !.c._instanceName = instanceName,
                        !.c._instanceInfo = info]
        create == IF looked THEN createInstanceIfMissing ELSE createNewInstance
    IN  IF looked /\ info = <<>> THEN Raise(w1, "IndexError")
        ELSE IF named /\ create /\ ~launched THEN Raise(w1, "Exception")
        \* self._instanceInfo.get on None
        ELSE IF named /\ info = <<>> THEN Raise(w1, "AttributeError")
        ELSE
        LET host1 == IF named THEN info[1].host ELSE host
            port1 == IF named THEN info[1].port ELSE port
            host2 == IF host1 = NoneStr THEN "localhost" ELSE host1
        IN  \* self._instanceInfo['host']=host on None
            IF info = <<>> THEN Raise(w1, "TypeError")
            \* int(None)
            ELSE IF port1 = None THEN Raise(w1, "TypeError")
            ELSE
            LET w2 == [w1 EXCEPT
                        !.c._instanceInfo =
                            <<[info[1] EXCEPT !.host = host2, !.port = port1]>>,
                        !.c._websocket = None]
            IN  queryApi(w2, FALSE, srv)

\* the host setter without the reset of the handle
hostSetterKeeping(w, host) ==
    Return([w EXCEPT !.c._host = host], None)

hostSetter(w, host) ==
    Return([w EXCEPT !.c._host = host, !.c._websocket = None], None)

portSetter(w, port) ==
    Return([w EXCEPT !.c._port = port, !.c._websocket = None], None)

\* the setter raising a plain Exception, as inspect does for a failed reply
instanceNameSetterPlainException(w, instanceName) ==
    IF instanceName # NoneStr THEN
        IF findInstance(instanceName) = <<>> THEN Raise(w, "Exception")
        ELSE
        Try(hostSetter(w, findInstance(instanceName)[1].host), LAMBDA r1 :
        Try(portSetter(r1.w, findInstance(instanceName)[1].port), LAMBDA r2 :
            Return([r2.w EXCEPT !.c._instanceName = instanceName], None)))
    ELSE Return([w EXCEPT !.c._instanceName = instanceName], None)

instanceNameSetter(w, instanceName) ==
    IF instanceName # NoneStr THEN
        IF findInstance(instanceName) = <<>> THEN Raise(w, "IndexError")
        ELSE
        Try(hostSetter(w, findInstance(instanceName)[1].host), LAMBDA r1 :
        Try(portSetter(r1.w, findInstance(instanceName)[1].port), LAMBDA r2 :
            Return([r2.w EXCEPT !.c._instanceName = instanceName], None)))
    ELSE Return([w EXCEPT !.c._instanceName = instanceName], None)

\* __del__
del(w) == closeSocket(w)

----------------------------------------------------------------------------
(* The proxies: Remote, RemoteObject, RemoteValue, RemoteFunction,         *)
(* CommandCaller.  A proxy's parent is its index in ns, 0 for None.        *)

Remote(kind, parent, name, parameters) ==
    [kind |-> kind, parent |-> parent, name |-> name,
     parameters |-> parameters]

RECURSIVE fullPathLeafFirst(_, _)
\* the path with the name put before the path of the parent
fullPathLeafFirst(ns, i) ==
    IF ns[i].parent = 0 THEN ns[i].name
    ELSE ns[i].name \o <<".">> \o fullPathLeafFirst(ns, ns[i].parent)

RECURSIVE fullPath(_, _)
fullPath(ns, i) ==
    IF ns[i].parent = 0 THEN ns[i].name
    ELSE fullPath(ns, ns[i].parent) \o <<".">> \o ns[i].name

RECURSIVE yieldChildren(_, _)
\* the loop of RemoteObject.children over the members of one reply: the
\* proxies yielded, and the exception that ended the loop ("" for none)
yieldChildren(parent, members) ==
    IF members = <<>> THEN [yielded |-> <<>>, exc |-> ""]
    ELSE
    LET child == Head(members)
        rest == yieldChildren(parent, Tail(members))
        kind == IF child.type = "object" THEN "RemoteObject"
                ELSE IF child.type = "function" THEN "RemoteFunction"
                ELSE "RemoteValue"
    IN  \* child['name'], child['params']
        IF child.name = <<>> THEN [yielded |-> <<>>, exc |-> "KeyError"]
        ELSE IF child.type = "function" /\ child.params = <<>>
            THEN [yielded |-> <<>>, exc |-> "KeyError"]
        ELSE [yielded |-> <<Remote(kind, parent, child.name[1],
                                  IF child.type = "function"
                                  THEN child.params[1] ELSE <<>>)>>
                          \o rest.yielded,
              exc |-> rest.exc]

\* list(node.children): val is what was yielded before the enumeration
\* ended, normally or not
children(w, ns, i, srv) ==
    IF ns[i].kind # "RemoteObject" THEN Return(w, <<>>)
    ELSE
    Then(inspect(w, <<fullPath(ns, i)>>, srv), LAMBDA r :
        IF r.exc # "" THEN [w |-> r.w, exc |-> r.exc, val |-> <<>>]
        ELSE Then(yieldChildren(i, r.val), LAMBDA y :
                  [w |-> r.w, exc |-> y.exc, val |-> y.yielded]))

\* what list(node.treeWalk()) has seen: ns, the proxies that exist (those of
\* the caller, then every proxy an enumeration of children has built), and
\* val, the proxies yielded so far, as indices into ns
Walk(w, exc, ns, val) == [w |-> w, exc |-> exc, ns |-> ns, val |-> val]

RECURSIVE treeWalkDepthFirst(_, _, _, _)
RECURSIVE walkEachDepthFirst(_, _, _, _)
RECURSIVE treeWalk(_, _, _, _)
RECURSIVE walkEach(_, _, _, _)

\* a walk that yields each child and then at once the walk of that child
walkEachDepthFirst(acc, from, to, srv) ==
    IF from > to \/ acc.exc # "" THEN acc
    ELSE Then(treeWalkDepthFirst(acc.w, acc.ns, from, srv), LAMBDA r :
             walkEachDepthFirst(
                 Walk(r.w, r.exc, r.ns, acc.val \o <<from>> \o r.val),
                 from + 1, to, srv))

treeWalkDepthFirst(w, ns, i, srv) ==
    Then(children(w, ns, i, srv), LAMBDA r1 :
    Then(walkEachDepthFirst(Walk(r1.w, "", ns \o r1.val, <<>>),
                            Len(ns) + 1, Len(ns) + Len(r1.val), srv),
         LAMBDA each :
         IF each.exc # "" THEN each ELSE [each EXCEPT !.exc = r1.exc]))

\* for child in self.children: yield from child.treeWalk(), over the proxies
\* from..to of acc.ns
walkEach(acc, from, to, srv) ==
    IF from > to \/ acc.exc # "" THEN acc
    ELSE Then(treeWalk(acc.w, acc.ns, from, srv), LAMBDA r :
             walkEach(Walk(r.w, r.exc, r.ns, acc.val \o r.val),
                      from + 1, to, srv))

\* Remote.treeWalk, run to its end: yield from self.children, then a second
\* enumeration of self.children, whose proxies are walked one after another.
\* An enumeration that raises has yielded the proxies before the member it
\* raised on, and those have been walked.
treeWalk(w, ns, i, srv) ==
    Then(children(w, ns, i, srv), LAMBDA r1 :
        IF r1.exc # ""
        THEN Walk(r1.w, r1.exc, ns \o r1.val,
                  [k \in 1..Len(r1.val) |-> Len(ns) + k])
        ELSE
        Then(children(r1.w, ns \o r1.val, i, srv), LAMBDA r2 :
        Then(walkEach(Walk(r2.w, "", ns \o r1.val \o r2.val,
                           [k \in 1..Len(r1.val) |-> Len(ns) + k]),
                      Len(ns) + Len(r1.val) + 1,
                      Len(ns) + Len(r1.val) + Len(r2.val), srv),
             LAMBDA each :
             IF each.exc # "" THEN each ELSE [each EXCEPT !.exc = r2.exc])))

\* RemoteValue.set and RemoteValue.get
set(w, ns, i, value, srv) ==
    eval(w, fullPath(ns, i) \o <<"=">> \o str(value) \o <<";">>, srv)

get(w, ns, i, srv) ==
    eval(w, fullPath(ns, i) \o <<";">>, srv)

\* the literal with the quotes of a string left unescaped
encodeArgQuotesOnly(arg) ==
    IF arg.type = "str"
    THEN <<"\"">> \o replace(arg.text, "\\", <<"\\", "\\">>) \o <<"\"">>
    ELSE str(arg)

\* the literal RemoteFunction.call builds for one argument
encodeArg(arg) ==
    IF arg.type = "str"
    THEN <<"\"">> \o replace(replace(arg.text, "\\", <<"\\", "\\">>),
                             "\"", <<"\\", "\"">>) \o <<"\"">>
    ELSE str(arg)

RECURSIVE encodedArgs(_)
encodedArgs(args) ==
    IF args = <<>> THEN <<>>
    ELSE <<encodeArg(Head(args))>> \o encodedArgs(Tail(args))

call(w, ns, i, args, srv) ==
    LET argStr == join(<<",", " ">>, encodedArgs(args))
    IN  eval(w, fullPath(ns, i) \o <<"(">> \o argStr \o <<")", ";">>, srv)

\* CommandCaller.__call__
commandCall(w, commandName, args, kwargs, srv) ==
    executeCommand(w, commandName, args, kwargs, srv)

----------------------------------------------------------------------------
(* Inputs of the calls *)

Hosts == {"h1", "h2"}
Ports == {8180, 9000}
InstanceNames == {"proj", "nope"}      \* "nope" is not registered

TextQuoted == <<"a", "\"", "b", "\\", "c">>     \* a"b\c
TextTwo == <<"t", "w", "o">>

Values ==
    { PyStr(TextQuoted), PyStr(TextTwo), PyInt(<<"1">>),
      PyFloat(<<"3", ".", "0">>) }

ArgLists ==
    { <<>>,
      <<PyInt(<<"1">>)>>,
      <<PyInt(<<"1">>), PyStr(TextTwo), PyFloat(<<"3", ".", "0">>)>>,
      <<PyStr(TextQuoted), PyStr(TextTwo)>> }

KwLists == { <<>>, << <<"when", PyInt(<<"1">>)>> >> }

CommandNames == { <<"c", "1">>, <<"s", "a", "v", "e">> }

----------------------------------------------------------------------------
(* The state machine *)

NoInput == [force |-> FALSE, node |-> 0, args |-> <<>>, kwargs |-> <<>>,
            name |-> <<>>, flags |-> <<>>]

Init ==
    /\ client = [init |-> "new",
                 _instanceName |-> UnsetStr, _instanceInfo |-> <<>>,
                 _host |-> UnsetStr, _port |-> Unset, _websocket |-> Unset,
                 \* the class attributes, read until an instance shadows them
                 _apiFunctions |-> <<>>, _commands |-> <<>>]
    /\ conns = <<>>
    /\ nreq = 0
    /\ nodes = <<Remote("RemoteObject", 0, RootName, <<>>)>>
    /\ last = [op |-> "", in |-> NoInput, exc |-> "", val |-> None,
               tx |-> <<>>, rx |-> <<>>, out |-> <<>>, opens |-> <<>>]

\* A call on the client ends with outcome r; c is the object afterwards and
\* ns the proxies the caller then holds.
Finish(op, input, r, c, ns) ==
    /\ r.w.n <= MaxReqs
    /\ Len(r.w.conns) <= MaxConns
    /\ client' = c
    /\ conns' = r.w.conns
    /\ nreq' = r.w.n
    /\ nodes' = ns
    /\ last' = [op |-> op, in |-> input, exc |-> r.exc, val |-> r.val,
                tx |-> r.w.tx, rx |-> r.w.rx, out |-> r.w.out,
                opens |-> r.w.opens]

\* The methods are called on the object once __init__ has run on it, whatever
\* __init__ did: the attributes it did not reach stay unassigned.  (No path
\* of __init__ returns normally: it never assigns _host and _port, which the
\* queryApi call at its end needs.  Only the setters assign them.)
Usable == client.init = "done"

Construct ==
    /\ client.init = "new"
    /\ \E instanceName \in InstanceNames \cup {NoneStr},
          createNewInstance \in BOOLEAN, createInstanceIfMissing \in BOOLEAN,
          host \in Hosts \cup {NoneStr}, port \in Ports \cup {None},
          launched \in BOOLEAN, srv \in Servers :
        \E r \in {__init__(World, instanceName, createNewInstance,
                          createInstanceIfMissing, host, port, launched, srv)} :
            Finish("__init__",
                   [NoInput EXCEPT !.name = instanceName, !.args = <<host, port>>,
                        !.flags = <<createNewInstance, createInstanceIfMissing,
                                    launched>>],
                   r, [r.w.c EXCEPT !.init = "done"],
                   nodes)

\* The object is collected: __del__ runs, and nothing is called afterwards
Del ==
    /\ Usable
    /\ \E r \in {del(World)} :
           Finish("__del__", NoInput, r, [r.w.c EXCEPT !.init = "deleted"], nodes)

SetHost ==
    /\ Usable
    /\ \E host \in Hosts :
        \E r \in {hostSetter(World, host)} :
            Finish("host", [NoInput EXCEPT !.name = host], r, r.w.c, nodes)

SetPort ==
    /\ Usable
    /\ \E port \in Ports :
        \E r \in {portSetter(World, port)} :
            Finish("port", [NoInput EXCEPT !.args = <<port>>], r, r.w.c, nodes)

SetInstanceName ==
    /\ Usable
    /\ \E instanceName \in InstanceNames \cup {NoneStr} :
        \E r \in {instanceNameSetter(World, instanceName)} :
            Finish("instanceName", [NoInput EXCEPT !.name = instanceName],
                   r, r.w.c, nodes)

OpenSocket ==
    /\ Usable
    /\ \E force \in BOOLEAN :
        \E r \in {openSocket(World, force)} :
            Finish("openSocket", [NoInput EXCEPT !.force = force],
                   r, r.w.c, nodes)

CloseSocket ==
    /\ Usable
    /\ \E r \in {closeSocket(World)} :
           Finish("closeSocket", NoInput, r, r.w.c, nodes)

ExecuteApi ==
    /\ Usable
    /\ \E args \in {<<>>}, kwargs \in KwLists, srv \in Bridges :
        \E r \in {executeApi(World, "saveAll", args, kwargs, srv)} :
            Finish("executeApi", [NoInput EXCEPT !.args = args, !.kwargs = kwargs],
                   r, r.w.c, nodes)

ExecuteCommand ==
    /\ Usable
    /\ \E commandName \in CommandNames, args \in {<<>>}, kwargs \in KwLists,
          srv \in Bridges :
        \E r \in {executeCommand(World, commandName, args, kwargs, srv)} :
            Finish("executeCommand",
                   [NoInput EXCEPT !.name = commandName, !.args = args,
                                   !.kwargs = kwargs],
                   r, r.w.c, nodes)

Eval ==
    /\ Usable
    /\ \E jsString \in {TextTwo}, srv \in Bridges :
        \E r \in {eval(World, jsString, srv)} :
            Finish("eval", [NoInput EXCEPT !.name = jsString], r, r.w.c, nodes)

Inspect ==
    /\ Usable
    /\ \E valueName \in {<<>>, <<RootName>>, <<TextTwo>>}, srv \in Servers :
        \E r \in {inspect(World, valueName, srv)} :
            Finish("inspect", [NoInput EXCEPT !.args = valueName],
                   r, r.w.c, nodes)

QueryApi ==
    /\ Usable
    /\ \E force \in BOOLEAN, srv \in Servers :
        \E r \in {queryApi(World, force, srv)} :
            Finish("queryApi", [NoInput EXCEPT !.force = force], r, r.w.c, nodes)

GetCommands ==
    /\ Usable
    /\ \E force \in BOOLEAN, srv \in Servers :
        \E r \in {getCommands(World, force, srv)} :
            Finish("getCommands", [NoInput EXCEPT !.force = force],
                   r, r.w.c, nodes)

Commands ==
    /\ Usable
    /\ \E srv \in Servers :
        \E r \in {commands(World, srv)} :
            Finish("commands", NoInput, r, r.w.c, nodes)

\* list(node.children); the caller keeps the proxies when it has room
Children ==
    /\ Usable
    /\ \E i \in 1..Len(nodes), srv \in Servers :
        \E r \in {children(World, nodes, i, srv)} :
            Finish("children", [NoInput EXCEPT !.node = i], r, r.w.c,
                   IF Len(nodes) + Len(r.val) <= MaxNodes
                   THEN nodes \o r.val ELSE nodes)

ValueSet ==
    /\ Usable
    /\ \E i \in 1..Len(nodes), value \in Values, srv \in Bridges :
        /\ nodes[i].kind = "RemoteValue"
        /\ \E r \in {set(World, nodes, i, value, srv)} :
               Finish("set", [NoInput EXCEPT !.node = i, !.args = <<value>>],
                      r, r.w.c, nodes)

ValueGet ==
    /\ Usable
    /\ \E i \in 1..Len(nodes), srv \in Bridges :
        /\ nodes[i].kind = "RemoteValue"
        /\ \E r \in {get(World, nodes, i, srv)} :
               Finish("get", [NoInput EXCEPT !.node = i], r, r.w.c, nodes)

FunctionCall ==
    /\ Usable
    /\ \E i \in 1..Len(nodes), args \in ArgLists, srv \in Bridges :
        /\ nodes[i].kind = "RemoteFunction"
        /\ \E r \in {call(World, nodes, i, args, srv)} :
               Finish("call", [NoInput EXCEPT !.node = i, !.args = args],
                      r, r.w.c, nodes)

CommandCall ==
    /\ Usable
    /\ \E commandName \in CommandNames, args \in ArgLists, kwargs \in KwLists,
          srv \in Bridges :
        \E r \in {commandCall(World, commandName, args, kwargs, srv)} :
            Finish("CommandCaller",
                   [NoInput EXCEPT !.name = commandName, !.args = args,
                                   !.kwargs = kwargs],
                   r, r.w.c, nodes)

\* list(node.treeWalk()) against a bridge whose graph does not change during
\* the walk; the caller keeps none of the proxies
TreeWalk ==
    /\ Usable
    /\ \E i \in 1..Len(nodes), srv \in WalkServers :
        \E r \in {treeWalk(World, nodes, i, srv)} :
            /\ r.w.n <= MaxWalkReqs
            /\ Len(r.w.conns) <= MaxConns
            /\ client' = r.w.c
            /\ conns' = r.w.conns
            /\ nreq' = r.w.n
            /\ nodes' = nodes
            /\ last' = [op |-> "treeWalk", in |-> [NoInput EXCEPT !.node = i],
                        exc |-> r.exc,
                        val |-> [ns |-> r.ns, yielded |-> r.val],
                        tx |-> r.w.tx, rx |-> r.w.rx, out |-> r.w.out,
                        opens |-> r.w.opens]

\* The connection: construction, the setters, opening and closing, and a
\* request that needs the connection
Next ==
    \/ Construct \/ Del
    \/ SetHost \/ SetPort \/ SetInstanceName
    \/ OpenSocket \/ CloseSocket
    \/ Eval

Spec == Init /\ [][Next]_vars

\* The requests, on a client whose target is set by the instanceName setter
NextRpc ==
    \/ Construct \/ SetInstanceName \/ CloseSocket
    \/ ExecuteApi \/ ExecuteCommand \/ Eval \/ Inspect
    \/ QueryApi \/ GetCommands \/ Commands

SpecRpc == Init /\ [][NextRpc]_vars

\* The proxies, on a client whose target is set by the instanceName setter
NextProxy ==
    \/ Construct \/ SetInstanceName
    \/ Inspect \/ Children \/ ValueSet \/ ValueGet \/ FunctionCall
    \/ CommandCall

SpecProxy == Init /\ [][NextProxy]_vars

\* The traversal, over the proxies the caller holds
NextWalk ==
    \/ Construct \/ SetInstanceName
    \/ Children \/ TreeWalk

SpecWalk == Init /\ [][NextWalk]_vars

\* The enumerations, on a client that also runs commands
NextAfterCommand ==
    \/ Construct \/ SetInstanceName
    \/ ExecuteCommand \/ Children \/ TreeWalk

SpecAfterCommand == Init /\ [][NextAfterCommand]_vars

----------------------------------------------------------------------------
(* Properties *)

\* the serialized literal of spec.md, section 4.3: a string in double quotes
\* with every backslash and double quote backslash-escaped, any other value
\* in its default textual form
RECURSIVE Escaped(_)
Escaped(text) ==
    IF text = <<>> THEN <<>>
    ELSE (IF Head(text) \in {"\\", "\""} THEN <<"\\", Head(text)>>
          ELSE <<Head(text)>>) \o Escaped(Tail(text))

Literal(v) ==
    IF v.type = "str" THEN <<"\"">> \o Escaped(v.text) \o <<"\"">> ELSE v.text

RECURSIVE Literals(_)
\* the literals of args, joined by ", "
Literals(args) ==
    IF args = <<>> THEN <<>>
    ELSE IF Len(args) = 1 THEN Literal(args[1])
    ELSE Literal(args[1]) \o <<",", " ">> \o Literals(Tail(args))

RpcOps == {"executeApi", "eval", "inspect", "getCommands", "commands",
           "queryApi", "executeCommand"}

NoUnread == \A i \in 1..Len(conns) : conns[i].inbox = <<>>

\* C1: an operation that sends a request sends exactly one, consumes exactly
\* one reply, which is the reply to its own request, and leaves no unread
\* reply on any connection.
C1_OneRequestOneReply ==
    (last.op \in RpcOps /\ last.tx # <<>>) =>
        /\ Len(last.tx) = 1
        /\ Len(last.rx) = 1
        /\ last.rx[1].of = last.tx[1].req.id
        /\ NoUnread

\* C2: a call of a CommandCaller for command C with arguments A and keyword
\* arguments K sends one request, whose command is "executeCommand" and whose
\* body carries C followed by A, and K.
C2_CommandRequest ==
    (last.op = "CommandCaller" /\ last.tx # <<>>) =>
        /\ Len(last.tx) = 1
        /\ last.tx[1].req.command = "executeCommand"
        /\ last.tx[1].req.args = <<PyStr(last.in.name)>> \o last.in.args
        /\ last.tx[1].req.kwargs = last.in.kwargs

\* the construction the claim C3 is about: a name the registry resolves (and
\* an editor that starts when one is started), or no name and an explicit port
C3_Case ==
    /\ last.op = "__init__"
    /\ \/ /\ last.in.name # NoneStr
          /\ getInstanceInfo(last.in.name) # <<>>
          /\ ~last.in.flags[1]
          /\ last.in.flags[2] => last.in.flags[3]
       \/ /\ last.in.name = NoneStr
          /\ last.in.args[2] # None

C3_Target ==
    IF last.in.name # NoneStr
    THEN <<getInstanceInfo(last.in.name)[1].host,
           getInstanceInfo(last.in.name)[1].port>>
    ELSE <<IF last.in.args[1] = NoneStr THEN "localhost" ELSE last.in.args[1],
           last.in.args[2]>>

\* C3: construction with a resolvable instance name, or with an explicit
\* port, succeeds, and its first request goes out on a connection opened to
\* the resolved (host, port).
C3_ConstructionResolvesTarget ==
    C3_Case =>
        /\ last.exc = ""
        /\ last.tx # <<>>
        /\ conns[last.tx[1].sock].target = C3_Target

\* C4: RemoteValue.set(value) sends one eval request whose expression is
\* fullPath, "=", the serialized literal of value, ";".
C4_SetExpression ==
    (last.op = "set" /\ last.tx # <<>>) =>
        /\ Len(last.tx) = 1
        /\ last.tx[1].req.command = "eval"
        /\ last.tx[1].req.args =
             <<PyStr(fullPath(nodes, last.in.node) \o <<"=">>
                     \o Literal(last.in.args[1]) \o <<";">>)>>

C5_Case ==
    /\ last.op = "children"
    /\ last.rx # <<>>
    /\ last.rx[1].parses
    /\ last.rx[1].kind = "obj"
    /\ last.rx[1].status = "OK"

\* C5: for a successful inspect reply the enumeration of children yields one
\* proxy per member, in the order of the members, each named after its
\* member and of the kind its type tells, a function with its declared
\* params.
C5_OneProxyPerMember ==
    C5_Case =>
        LET members == last.rx[1].members IN
        /\ last.exc = ""
        /\ Len(last.val) = Len(members)
        /\ \A k \in 1..Len(members) :
            /\ last.val[k].name = members[k].key
            /\ last.val[k].parent = last.in.node
            /\ last.val[k].kind =
                 (IF members[k].type = "object" THEN "RemoteObject"
                  ELSE IF members[k].type = "function" THEN "RemoteFunction"
                  ELSE "RemoteValue")
            /\ (members[k].type = "function" /\ members[k].params # <<>>)
                 => last.val[k].parameters = members[k].params[1]

C6_Case ==
    /\ last.op \in {"inspect", "children"}
    /\ last.rx # <<>>
    /\ last.rx[1].parses
    /\ last.rx[1].kind = "obj"
    /\ last.rx[1].status # "OK"

\* C6: when the reply to an inspect request has a status other than "OK",
\* inspect raises an error that carries the reply and returns no members, and
\* an enumeration of children built on it yields no proxy.
C6_InspectFailureRaises ==
    C6_Case =>
        /\ last.exc = "Exception"
        /\ last.op = "inspect" => last.val = last.rx[1]
        /\ last.op = "children" => last.val = <<>>

\* an enumeration of children met a failure reply that carried members
C6_Witness ==
    /\ C6_Case
    /\ last.op = "children"
    /\ last.rx[1].members # <<>>
    /\ last.exc = "Exception"

Held(h) == h # None /\ h # Unset

\* C7: every call of openSocket(force), the caller's or a method's, returns
\* an open connection that is the client's handle: a new one when none was
\* held, the held one and no new one when one was held and force is false,
\* and a new one after closing the held one when force is true.
C7_OpenSocketReturnsConnection ==
    \A k \in 1..Len(last.opens) :
        LET o == last.opens[k] IN
        /\ o.exc = ""
        /\ o.sock = client._websocket
        /\ conns[o.sock].open
        /\ ~Held(o.held) => o.created = 1
        /\ (Held(o.held) /\ ~o.force) => (o.sock = o.held /\ o.created = 0)
        /\ (Held(o.held) /\ o.force) =>
             (o.sock # o.held /\ o.created = 1 /\ ~conns[o.held].open)

\* What holds of openSocket once host and port have been assigned (the
\* setters leave the handle assigned too): the three cases of C7.
C7_WithTargetAssigned ==
    (client._host # UnsetStr /\ client._port # Unset)
        => C7_OpenSocketReturnsConnection

C8_Inv ==
    \* the held connection is open, and is a connection to the current target
    /\ Held(client._websocket) =>
        /\ conns[client._websocket].open
        /\ conns[client._websocket].target = <<client._host, client._port>>
    \* a change of host or port leaves no connection held
    /\ (last.op \in {"host", "port"}
        \/ (last.op = "instanceName" /\ last.exc = "" /\ last.in.name # NoneStr))
        => client._websocket = None
    \* every request has gone out on the held connection, so to the target
    /\ \A k \in 1..Len(last.tx) :
        /\ last.tx[k].sock = client._websocket
        /\ conns[last.tx[k].sock].target = <<client._host, client._port>>

C8_Step ==
    \* a call sends only on the connection held when it starts, or on one it
    \* has created itself
    /\ \A k \in 1..Len(last'.tx) :
        \/ last'.tx[k].sock = client._websocket
        \/ last'.tx[k].sock > Len(conns)
    \* and the handle never returns to an earlier connection
    /\ \/ client'._websocket \in {Unset, None, client._websocket}
       \/ client'._websocket > Len(conns)
    \* with none held, a request opens a new connection to (host, port)
    /\ (/\ last'.op = "eval"
        /\ client._websocket = None
        /\ client._host # UnsetStr
        /\ client._port # Unset)
        => /\ Len(last'.tx) = 1
           /\ last'.tx[1].sock = Len(conns) + 1
           /\ conns'[Len(conns) + 1].target = <<client._host, client._port>>
           /\ conns'[Len(conns) + 1].open

\* C8: after the host or the port is changed no connection is held, every
\* later request goes out on a connection created after the change, to the
\* current (host, port), and the connection held before the change is never
\* the handle again.
C8_ChangedTargetReconnects == []C8_Inv /\ [][C8_Step]_vars

\* a request on a second connection, while the connection dropped by a
\* change of target is still open to the old target
C8_Witness ==
    /\ last.op = "eval"
    /\ last.tx # <<>>
    /\ \E i \in 1..Len(conns) :
        /\ i < last.tx[1].sock
        /\ conns[i].open
        /\ conns[i].target # conns[last.tx[1].sock].target

\* C9: closeSocket (also when __del__ calls it) raises no error and leaves
\* the client holding no connection, whether or not one was held.
C9_CloseSocketIdempotent ==
    last.op \in {"closeSocket", "__del__"} =>
        /\ last.exc = ""
        /\ client._websocket = None

\* What holds of closeSocket once _websocket has been assigned: it raises
\* nothing, no connection is held afterwards, and no connection is left open
\* by a call on a client that held none.
C9_WhenHandleAssigned ==
    [][(last'.op = "closeSocket" /\ client._websocket # Unset) =>
        /\ last'.exc = ""
        /\ client'._websocket = None
        /\ Held(client._websocket) => ~conns'[client._websocket].open
        /\ client._websocket = None => (client' = client /\ conns' = conns)]_vars

ExampleArgs == <<PyInt(<<"1">>), PyStr(TextTwo), PyFloat(<<"3", ".", "0">>)>>

\* root.fn(1, "two", 3.0);
ExampleCall ==
    <<"r", "o", "o", "t", ".", "f", "n", "(", "1", ",", " ", "\"", "t", "w",
      "o", "\"", ",", " ", "3", ".", "0", ")", ";">>

\* C10: RemoteFunction.call(*args) sends exactly one eval request, whose
\* expression is fullPath, "(", the literals of the arguments joined by ", ",
\* ");" -- root.fn(1, "two", 3.0); for call(1, "two", 3.0) on root.fn -- and
\* fails only when the reply cannot be parsed, whatever the number of
\* arguments.
C10_CallExpression ==
    last.op = "call" =>
        /\ Len(last.tx) = 1
        /\ last.tx[1].req.command = "eval"
        /\ last.tx[1].req.kwargs = <<>>
        /\ last.tx[1].req.args =
             <<PyStr(fullPath(nodes, last.in.node) \o <<"(">>
                     \o Literals(last.in.args) \o <<")", ";">>)>>
        /\ (last.in.args = ExampleArgs
            /\ fullPath(nodes, last.in.node) = RootName \o <<".", "f", "n">>)
             => last.tx[1].req.args[1].text = ExampleCall
        /\ last.exc # "" => (last.exc = "JSONDecodeError" /\ ~last.rx[1].parses)

\* call(1, "two", 3.0) on root.fn, which declares one parameter, returned
C10_Witness ==
    /\ last.op = "call"
    /\ last.in.args = ExampleArgs
    /\ Len(nodes[last.in.node].parameters) = 1
    /\ last.tx[1].req.args[1].text = ExampleCall
    /\ last.exc = ""

RECURSIVE WalkDepth(_, _, _)
\* how many levels below proxy i proxy j is, for a descendant j of i
WalkDepth(ns, j, i) ==
    IF ns[j].parent = i THEN 1 ELSE 1 + WalkDepth(ns, ns[j].parent, i)

KindOf(type) ==
    IF type = "object" THEN "RemoteObject"
    ELSE IF type = "function" THEN "RemoteFunction"
    ELSE "RemoteValue"

\* C11: in what treeWalk() yields, from any node, no descendant of a child
\* comes before a direct child; and a walk that ends normally starts with
\* the direct children, one per member of the node and in their order.
C11_ChildrenBeforeDescendants ==
    last.op = "treeWalk" =>
        LET ns == last.val.ns
            y == last.val.yielded
            Direct(k) == ns[y[k]].parent = last.in.node
        IN  /\ \A p, q \in 1..Len(y) : (p < q /\ Direct(q)) => Direct(p)
            /\ (last.exc = "" /\ last.rx # <<>>) =>
                 LET members == last.rx[1].members IN
                 /\ Len(y) >= Len(members)
                 /\ \A k \in 1..Len(y) : Direct(k) <=> k <= Len(members)
                 /\ \A k \in 1..Len(members) :
                      ns[y[k]].kind = KindOf(members[k].type)

\* a walk that ended normally and yielded two children, then descendants of
\* them, two and three levels down
C11_Witness ==
    /\ last.op = "treeWalk"
    /\ last.exc = ""
    /\ Len(last.val.yielded) >= 4
    /\ last.val.ns[last.val.yielded[2]].parent = last.in.node
    /\ \E k \in 1..Len(last.val.yielded) :
         WalkDepth(last.val.ns, last.val.yielded[k], last.in.node) = 3

\* C17: a treeWalk() that ends normally has yielded every member of every
\* node it has inspected, each proxy path once, and in non-decreasing depth:
\* no node of a deeper level before a node of a level above it.
C17_BreadthFirst ==
    (last.op = "treeWalk" /\ last.exc = "") =>
        LET ns == last.val.ns
            y == last.val.yielded
        IN  /\ \A k \in 1..Len(last.rx) : \A m \in 1..Len(last.rx[k].members) :
                 \E p \in 1..Len(y) :
                     fullPath(ns, y[p]) =
                         last.tx[k].req.args[1].text \o <<".">>
                             \o last.rx[k].members[m].key
            /\ \A p, q \in 1..Len(y) :
                 p # q => fullPath(ns, y[p]) # fullPath(ns, y[q])
            /\ \A p, q \in 1..Len(y) :
                 p < q => WalkDepth(ns, y[p], last.in.node)
                            <= WalkDepth(ns, y[q], last.in.node)

\* What holds of the order the code yields in: every proxy after its parent's
\* path has been yielded (or is a direct child), each path once.
C17_ParentsFirst ==
    (last.op = "treeWalk" /\ last.exc = "") =>
        LET ns == last.val.ns
            y == last.val.yielded
        IN  /\ \A p, q \in 1..Len(y) :
                 p # q => fullPath(ns, y[p]) # fullPath(ns, y[q])
            /\ \A q \in 1..Len(y) :
                 \/ ns[y[q]].parent = last.in.node
                 \/ \E p \in 1..(q - 1) :
                      fullPath(ns, y[p]) = fullPath(ns, ns[y[q]].parent)

RECURSIVE Chain(_, _)
\* the names from the root down to proxy i
Chain(ns, i) ==
    IF ns[i].parent = 0 THEN <<ns[i].name>>
    ELSE Append(Chain(ns, ns[i].parent), ns[i].name)

RECURSIVE DotJoined(_)
DotJoined(names) ==
    IF Len(names) = 1 THEN names[1]
    ELSE DotJoined(SubSeq(names, 1, Len(names) - 1))
            \o <<".">> \o names[Len(names)]

C16_Inv ==
    \* of every proxy the caller holds
    /\ \A i \in 1..Len(nodes) :
         fullPath(nodes, i) = DotJoined(Chain(nodes, i))
    \* of every proxy a walk has built
    /\ last.op = "treeWalk" =>
         \A j \in 1..Len(last.val.ns) :
             fullPath(last.val.ns, j) = DotJoined(Chain(last.val.ns, j))
    \* and it is the path an enumeration of children asks the bridge for
    /\ (last.op = "children" /\ last.tx # <<>>) =>
         last.tx[1].req.args[1].text = DotJoined(Chain(nodes, last.in.node))

C16_Step ==
    \A i \in 1..Len(nodes) :
        /\ i <= Len(nodes')
        /\ fullPath(nodes', i) = fullPath(nodes, i)

\* C16: fullPath of a proxy is the names of its chain, root first, joined by
\* "." (the name alone for a root), and no operation changes it.
C16_FullPathIsDotJoinedChain == []C16_Inv /\ [][C16_Step]_vars

\* a walk has built a proxy four names deep: root.a.c.d
C16_Witness ==
    /\ last.op = "treeWalk"
    /\ \E j \in 1..Len(last.val.ns) :
        /\ Len(Chain(last.val.ns, j)) = 4
        /\ fullPath(last.val.ns, j) =
             <<"r", "o", "o", "t", ".", "a", ".", "c", ".", "d">>

\* the requests of the last call were inspect requests, each answered by the
\* reply to itself
OwnReplies ==
    /\ Len(last.rx) = Len(last.tx)
    /\ \A k \in 1..Len(last.rx) :
        /\ last.tx[k].req.command = "inspect"
        /\ last.rx[k].of = last.tx[k].req.id

\* C12: a complete enumeration of the children of a RemoteObject, alone or
\* as a step of treeWalk, sends its own inspect request for the fullPath of
\* the node and yields the members of the reply to that very request, so
\* what the bridge holds at that moment and nothing older.
C12_EnumerationInspectsAfresh ==
    /\ (/\ last.op = "children"
        /\ nodes[last.in.node].kind = "RemoteObject"
        /\ last.exc = "")
        => /\ Len(last.tx) = 1
           /\ last.tx[1].req.args = <<PyStr(fullPath(nodes, last.in.node))>>
           /\ OwnReplies
           /\ Len(last.val) = Len(last.rx[1].members)
           /\ \A k \in 1..Len(last.val) :
                last.val[k].kind = KindOf(last.rx[1].members[k].type)
    /\ (last.op = "treeWalk" /\ last.tx # <<>> /\ last.exc = "")
        => OwnReplies

\* What holds of an enumeration on a connection with no unread reply: it
\* sends its own inspect request and yields from the reply to it.
C12_WithoutUnread ==
    [][(NoUnread /\ last'.op \in {"children", "treeWalk"})
        => C12_EnumerationInspectsAfresh']_vars

C13_Step ==
    \* a list that is cached is returned as it is, and nothing is sent
    /\ (/\ last'.op \in {"getCommands", "commands"}
        /\ ~last'.in.force
        /\ client._commands # <<>>)
        => /\ last'.tx = <<>>
           /\ last'.exc = ""
           /\ last'.val = client._commands
           /\ client'._commands = client._commands
    /\ (/\ last'.op = "queryApi"
        /\ ~last'.in.force
        /\ client._apiFunctions # <<>>)
        => /\ last'.tx = <<>>
           /\ last'.exc = ""
           /\ last'.val = client._apiFunctions
           /\ client'._apiFunctions = client._apiFunctions
    \* a forced call that returns has sent one query, and the cache is the
    \* list of its reply
    /\ (/\ last'.op = "getCommands"
        /\ last'.in.force
        /\ last'.exc = "")
        => /\ Len(last'.tx) = 1
           /\ last'.tx[1].req.command = "getCommands"
           /\ client'._commands = last'.val
           /\ Len(last'.rx) = 1
           /\ last'.rx[1].kind = "list"
               => Len(last'.val) = Len(last'.rx[1].members)
    /\ (/\ last'.op = "queryApi"
        /\ last'.in.force
        /\ last'.exc = "")
        => /\ Len(last'.tx) = 1
           /\ last'.tx[1].req.command = "queryApi"
           /\ client'._apiFunctions = last'.val
           /\ Len(last'.val) = Len(last'.rx[1].members)
    \* no other operation changes a cache
    /\ client'._commands # client._commands
        => /\ last'.op \in {"getCommands", "commands"}
           /\ last'.in.force \/ client._commands = <<>>
    /\ client'._apiFunctions # client._apiFunctions
        => /\ last'.op \in {"queryApi", "__init__"}
           /\ last'.in.force \/ client._apiFunctions = <<>>

Registered(instanceName) ==
    \E k \in 1..Len(Instances) : Instances[k].name = instanceName

\* a name is looked up in the registry, which does not hold it
C14_Case ==
    /\ last.op \in {"instanceName", "__init__"}
    /\ last.in.name # NoneStr
    /\ ~Registered(last.in.name)
    /\ last.op = "__init__" => ~last.in.flags[1]

C14_Inv ==
    /\ C14_Case
        => /\ last.exc = "IndexError"
           /\ last.tx = <<>>
           /\ last.opens = <<>>
    \* and no other failure is an IndexError
    /\ last.exc = "IndexError" => C14_Case

C14_Step ==
    C14_Case'
        => /\ conns' = conns
           /\ nreq' = nreq
           /\ last'.op = "instanceName" => client' = client

\* C14: looking up an instance name that is not registered, in construction
\* or in the instanceName setter, raises IndexError, which no request, reply
\* or connection failure raises, and it does so with nothing sent, no
\* connection opened or closed, and (in the setter) the client unchanged.
C14_NoInstanceIsDistinct == []C14_Inv /\ [][C14_Step]_vars

\* an unregistered name assigned while a connection is held, which stays held
C14_Witness ==
    /\ last.op = "instanceName"
    /\ last.in.name = "nope"
    /\ last.exc = "IndexError"
    /\ Held(client._websocket)
    /\ conns[client._websocket].open

\* the reply the bridge gave to request id cannot be parsed, read or not
Unparsable(id) ==
    \/ \E k \in 1..Len(last.rx) : last.rx[k].of = id /\ ~last.rx[k].parses
    \/ \E i \in 1..Len(conns) : \E k \in 1..Len(conns[i].inbox) :
           conns[i].inbox[k].of = id /\ ~conns[i].inbox[k].parses

\* C15: an operation whose request is answered by a payload that is not
\* JSON raises, and has surfaced that payload.
C15_UnparsableReplySurfaced ==
    (last.op \in RpcOps /\ last.tx # <<>> /\ Unparsable(last.tx[1].req.id))
        => /\ last.exc # ""
           /\ \E o \in 1..Len(last.out) : last.out[o].of = last.tx[1].req.id

\* What holds of every reply that is read: when it cannot be parsed the
\* operation raises the parse error, having printed the payload.
C15_ReadReplySurfaced ==
    \A k \in 1..Len(last.rx) :
        ~last.rx[k].parses
            => /\ last.exc = "JSONDecodeError"
               /\ last.out = <<last.rx[k]>>

\* C18: at most one connection is open, and it is the one the client holds:
\* a connection the client has dropped or replaced has been closed.
C18_AtMostOneOpen ==
    /\ Cardinality({i \in 1..Len(conns) : conns[i].open}) <= 1
    /\ \A i \in 1..Len(conns) : conns[i].open => client._websocket = i

\* What holds of openSocket(force=True) and closeSocket: the connection held
\* before is closed.
C18_ClosedWhenReplacedByForce ==
    [][(last'.op \in {"openSocket", "closeSocket"} /\ last'.exc = ""
        /\ Held(client._websocket) /\ client'._websocket # client._websocket)
        => ~conns'[client._websocket].open]_vars

====
